---- MODULE Spec2Model ----
(***************************************************************************)
(* Taboo training pipeline of train-taboo.py: the orchestrator             *)
(* train_taboo and the two Keras callbacks MeasureDetection and            *)
(* AdjustTrainingParameters that form the adaptive training controller.    *)
(*                                                                         *)
(* Numbers.  Logged losses are IEEE floats: a record [cls, v] with cls in  *)
(* "fin", "inf", "ninf", "nan"; a finite value v counts tenths             *)
(* (5.0 is v = 50).  The regularization weight counts units of             *)
(* 10^-WeightDigits (1.0 is One); multiplying by 0.1 divides by ten and    *)
(* the smallest positive weight underflows to 0, as the float does.        *)
(* Detection rates count thousandths (0.01 is 10).  The learning rate      *)
(* counts units of InitialLr * 10^-9.                                      *)
(***************************************************************************)
EXTENDS Integers, Sequences, FiniteSets, TLC

VARIABLES pc, run, file, model, history, reg_hyperp, lr, epoch, logs,
          detected, target_fp_reached, stop_training, temp_hyperp,
          old_hyperp, thresholds, profiled_layers

vars == <<pc, run, file, model, history, reg_hyperp, lr, epoch, logs,
          detected, target_fp_reached, stop_training, temp_hyperp,
          old_hyperp, thresholds, profiled_layers>>

(* ---------------------------- bounds ----------------------------------- *)

\* number of times the script is run against the same MODEL_PATH
MaxRuns == 2

\* epochs for which CallbackSpec drives the callbacks
MaxCallEpochs == 6

\* decimal digits kept for a weight; 10^-WeightDigits is the smallest
\* positive weight, one more scaling underflows to 0
WeightDigits == 3

(* ------------------------ program constants ---------------------------- *)

\* Config.TARGET_FP = 0.01, in thousandths
TARGET_FP == 10

\* Config.UPDATE_EVERY_EPOCHS
UPDATE_EVERY_EPOCHS == 5

\* epochs=100 of the regularized model.fit
EPOCHS == 100

\* learning rate of the optimizer compiled for the taboo model
InitialLr == 1000000000

\* Config.PROFILED_LAYERS = [5]
PROFILED_LAYERS == <<5>>

\* Config.THRESHOLD = THRESHOLDS[MODEL_IDX] = [0.4] * LEN_LAYER, in tenths;
\* written to THRESHOLD_PATH by line 199 and read back by the augmentation
THRESHOLD == <<4>>

(* ---------------------------- floats ----------------------------------- *)

Fin(x) == [cls |-> "fin", v |-> x]
PosInf == [cls |-> "inf", v |-> 0]
NegInf == [cls |-> "ninf", v |-> 0]
NaN == [cls |-> "nan", v |-> 0]

RECURSIVE Pow10(_)
Pow10(n) == IF n = 0 THEN 1 ELSE 10 * Pow10(n - 1)

\* the weight 1.0
One == Pow10(WeightDigits)

\* no value: a local that is not bound, a measurement not taken;
\* old_hyperp is the value self.reg_hyperp.numpy() read at line 142
NoValue == -1

NoLogs == [last |-> NaN, loss |-> NaN, set |-> FALSE]

\* temp_hyperp *= 0.1
MulTenth(t) == t \div 10

\* logs[last key] * temp_hyperp : float times a weight t >= 0
FMul(a, t) ==
    CASE a.cls = "fin" -> Fin(a.v * t)
      [] a.cls = "inf" -> IF t > 0 THEN PosInf ELSE NaN
      [] a.cls = "ninf" -> IF t > 0 THEN NegInf ELSE NaN
      [] OTHER -> NaN

\* x - logs['loss'] : x in tenths*weight units, the loss l in tenths
FSub(x, l) ==
    CASE x.cls = "nan" \/ l.cls = "nan" -> NaN
      [] x.cls = "inf" -> IF l.cls = "inf" THEN NaN ELSE PosInf
      [] x.cls = "ninf" -> IF l.cls = "ninf" THEN NaN ELSE NegInf
      [] l.cls = "inf" -> NegInf
      [] l.cls = "ninf" -> PosInf
      [] OTHER -> Fin(x.v - l.v * One)

\* y >= 1 : false on NaN
FGe1(y) ==
    CASE y.cls = "fin" -> y.v >= 10 * One
      [] y.cls = "inf" -> TRUE
      [] OTHER -> FALSE

\* the loop condition of line 139
SearchCond(last, loss, t) == FGe1(FSub(FMul(last, t), loss))

RECURSIVE SearchFrom(_, _, _)
SearchFrom(last, loss, t) ==
    IF SearchCond(last, loss, t) THEN SearchFrom(last, loss, MulTenth(t))
    ELSE t

\* mutant: the search starts one scaling too low
Search_StartTenth(last, loss) == SearchFrom(last, loss, MulTenth(One))

\* lines 138-140: temp_hyperp = 1.0; while ...: temp_hyperp *= 0.1
Search(last, loss) == SearchFrom(last, loss, One)

\* rounding error of storing the weight w in the float32 variable
\* reg_hyperp, in units of 10^-11: float32(0.1) = 0.10000000149...,
\* float32(0.01) = 0.00999999977..., float32(0.001) = 0.00100000004...;
\* 0.0 and 1.0 are exact
Float32Err(w) ==
    CASE w = One \div 10 /\ w > 0 -> 149
      [] w = One \div 100 /\ w > 0 -> 22
      [] w = One \div 1000 /\ w > 0 -> 5
      [] OTHER -> 0

\* max(rel_tol * max(|a|, |b|), abs_tol) with rel_tol = 1e-9 and
\* abs_tol = 1e-10, in units of 10^-11
IsCloseTol(a) == IF a = One THEN 100 ELSE 10

\* math.isclose(temp_hyperp, self.reg_hyperp.numpy(), abs_tol=1e-10):
\* two different weights are at least 10^-WeightDigits apart, far above
\* the tolerance; equal ones differ by the float32 rounding of the stored
\* value
IsClose(a, b) == a = b /\ Float32Err(b) <= IsCloseTol(a)

(* -------------------------- controller --------------------------------- *)

\* mutant: the target counts as reached at equality
TargetFpReached_Le(d) == d <= TARGET_FP

\* mutant: the flag is latched, once true it stays true
TargetFpReached_Latched(d) == target_fp_reached \/ d < TARGET_FP

\* line 114: detected < self.target_fp
TargetFpReached(d) == d < TARGET_FP

\* mutant: the evaluator never signals the stop
StopSignal_Never(reached, stop) == stop

\* lines 117-118: if self.target_fp_reached: self.model.stop_training = True
StopSignal(reached, stop) == IF reached THEN TRUE ELSE stop

\* mutant: every epoch is an update epoch
CadenceSkip_Never(e) == FALSE

\* line 130: epoch % self.update_freq != 0
CadenceSkip(e) == e % UPDATE_EVERY_EPOCHS # 0

\* mutant: the adjustment ignores the evaluator's flag
TargetSkip_Ignored(reached) == FALSE

\* line 134: self.measure_fp.target_fp_reached
TargetSkip(reached) == reached

\* mutant: the test epoch > 0 is missing
LrDecayDue_NoPositive(e) == e % (UPDATE_EVERY_EPOCHS * 2) = 0

\* line 146: epoch > 0 and (epoch % (self.update_freq * 2)) == 0
LrDecayDue(e) == e > 0 /\ e % (UPDATE_EVERY_EPOCHS * 2) = 0

(* --------------------------- orchestrator ------------------------------ *)

NoModel == [weights |-> "none", taboo |-> FALSE]
Absent == [kind |-> "absent", weights |-> "none", taboo |-> FALSE]
Corrupt == [kind |-> "corrupt", weights |-> "none", taboo |-> FALSE]
Saved(m) == [kind |-> "model", weights |-> m.weights, taboo |-> m.taboo]

\* load_model(c.MODEL_PATH) raises OSError / ValueError unless the file
\* holds a model
Loadable(f) == f.kind = "model"

\* taboo_tools.create_taboo_model: adds the taboo structure, keeps weights
CreateTabooModel(m) == [m EXCEPT !.taboo = TRUE]

\* taboo_tools.remove_taboo: strips the taboo structure, keeps weights
RemoveTaboo(m) == [m EXCEPT !.taboo = FALSE]

\* mutant: the final save comes right after the fit, the strip is skipped
NextStatement_NoStrip(p) ==
    CASE p = "load_ok" -> "augment"
      [] p = "load_fail" -> "base_fit"
      [] p = "base_fit" -> "base_save"
      [] p = "base_save" -> "augment"
      [] p = "augment" -> "fit"
      [] p = "fit" -> "save"
      [] p = "strip" -> "save"
      [] OTHER -> "done"

\* mutant: a failed load goes on to the augmentation without a base model
\* training
NextStatement_NoFallback(p) ==
    CASE p = "load_ok" -> "augment"
      [] p = "load_fail" -> "augment"
      [] p = "base_fit" -> "base_save"
      [] p = "base_save" -> "augment"
      [] p = "augment" -> "fit"
      [] p = "fit" -> "strip"
      [] p = "strip" -> "save"
      [] OTHER -> "done"

\* statement order of train_taboo, lines 161-193
NextStatement(p) ==
    CASE p = "load_ok" -> "augment"
      [] p = "load_fail" -> "base_fit"
      [] p = "base_fit" -> "base_save"
      [] p = "base_save" -> "augment"
      [] p = "augment" -> "fit"
      [] p = "fit" -> "strip"
      [] p = "strip" -> "save"
      [] OTHER -> "done"

\* mutant: the adjustment is listed before the evaluation
CallbackOrder_AdjustFirst(p) ==
    CASE p = "train" -> "adjust"
      [] p = "adjust" -> "measure"
      [] OTHER -> "epoch_end"

\* line 188: callbacks=[tensorboard, measure_fp, reg_hyperp_adjustment];
\* on_epoch_end is called in list order after the epoch's training
CallbackOrder(p) ==
    CASE p = "train" -> "measure"
      [] p = "measure" -> "adjust"
      [] OTHER -> "epoch_end"

(* ----------------------------- inputs ---------------------------------- *)

\* values of the last key of logs, in tenths: 0.5, 2.0, 5.0, 20.0, inf, nan
LastValues == {Fin(5), Fin(20), Fin(50), Fin(200), PosInf, NaN}

\* values of logs['loss'], in tenths: 0.3, 1.0, nan
LossValues == {Fin(3), Fin(10), NaN}

\* detection rates returned by eval_taboo, in thousandths
DetectedValues == {8, 10, 12}

FitPcs == {"train", "measure", "adjust", "epoch_end"}

(* ------------------------------ state ---------------------------------- *)

Init ==
    /\ pc = "load"
    /\ run = 1
    /\ file \in {Absent, Corrupt}
    /\ model = NoModel
    /\ history = <<>>
    /\ reg_hyperp = 0
    /\ lr = InitialLr
    /\ epoch = 0
    /\ logs = NoLogs
    /\ detected = NoValue
    /\ target_fp_reached = FALSE
    /\ stop_training = FALSE
    /\ temp_hyperp = NoValue
    /\ old_hyperp = NoValue
    /\ thresholds = <<>>
    /\ profiled_layers = <<>>

ctl == <<reg_hyperp, lr, epoch, logs, detected, target_fp_reached,
         stop_training, temp_hyperp>>

\* lines 161-163: the checkpoint loads
LoadModelOk ==
    /\ pc = "load"
    /\ Loadable(file)
    /\ model' = [weights |-> file.weights, taboo |-> file.taboo]
    /\ history' = Append(history, "loaded")
    /\ pc' = NextStatement("load_ok")
    /\ UNCHANGED <<run, file, ctl>>
    /\ UNCHANGED <<old_hyperp, thresholds, profiled_layers>>

\* lines 164-170: load_model raises, a fresh model is built
LoadModelFail ==
    /\ pc = "load"
    /\ ~Loadable(file)
    /\ model' = [weights |-> "init", taboo |-> FALSE]
    /\ history' = Append(history, "scratch")
    /\ pc' = NextStatement("load_fail")
    /\ UNCHANGED <<run, file, ctl>>
    /\ UNCHANGED <<old_hyperp, thresholds, profiled_layers>>

\* line 173: epochs without regularizer
BaseFit ==
    /\ pc = "base_fit"
    /\ model' = [model EXCEPT !.weights = "base"]
    /\ history' = Append(history, "base_fit")
    /\ pc' = NextStatement("base_fit")
    /\ UNCHANGED <<run, file, ctl>>
    /\ UNCHANGED <<old_hyperp, thresholds, profiled_layers>>

\* line 174: model.save(c.MODEL_PATH)
BaseSave ==
    /\ pc = "base_save"
    /\ file' = Saved(model)
    /\ history' = Append(history, "base_saved")
    /\ pc' = NextStatement("base_save")
    /\ UNCHANGED <<run, model, ctl>>
    /\ UNCHANGED <<old_hyperp, thresholds, profiled_layers>>

\* lines 177-182: reg_hyperp = K.variable(0.0), the taboo model, the two
\* callbacks
Augment ==
    /\ pc = "augment"
    /\ reg_hyperp' = 0
    /\ model' = CreateTabooModel(model)
    /\ target_fp_reached' = FALSE
    /\ lr' = InitialLr
    /\ history' = Append(history, "augmented")
    /\ pc' = NextStatement("augment")
    /\ profiled_layers' = PROFILED_LAYERS
    /\ thresholds' = THRESHOLD
    /\ UNCHANGED <<run, file, epoch, logs, detected, stop_training,
                   temp_hyperp, old_hyperp>>

\* lines 186-189: model.fit begins, stop_training is cleared
FitStart ==
    /\ pc = "fit"
    /\ epoch' = 0
    /\ stop_training' = FALSE
    /\ pc' = "train"
    /\ UNCHANGED <<run, file, model, history, reg_hyperp, lr, logs, detected,
                   target_fp_reached, temp_hyperp>>
    /\ UNCHANGED <<old_hyperp, thresholds, profiled_layers>>

\* one epoch of gradient steps; its logs go to the callbacks
TrainEpoch ==
    /\ pc = "train"
    /\ \E a \in LastValues, l \in LossValues :
          logs' = [last |-> a, loss |-> l, set |-> TRUE]
    /\ model' = [model EXCEPT !.weights = "tuned"]
    /\ pc' = CallbackOrder("train")
    /\ UNCHANGED <<run, file, history, reg_hyperp, lr, epoch, detected,
                   target_fp_reached, stop_training, temp_hyperp>>
    /\ UNCHANGED <<old_hyperp, thresholds, profiled_layers>>

\* mutant: the evaluation also resets the regularization weight
MeasureOnEpochEnd_ResetsWeight ==
    /\ pc = "measure"
    /\ \E d \in DetectedValues :
          /\ detected' = d
          /\ target_fp_reached' = TargetFpReached(d)
          /\ stop_training' = StopSignal(TargetFpReached(d), stop_training)
    /\ reg_hyperp' = 0
    /\ pc' = CallbackOrder("measure")
    /\ UNCHANGED <<run, file, model, history, lr, epoch, logs, temp_hyperp>>
    /\ UNCHANGED <<old_hyperp, thresholds, profiled_layers>>

\* MeasureDetection.on_epoch_end, lines 108-118
MeasureOnEpochEnd ==
    /\ pc = "measure"
    /\ \E d \in DetectedValues :
          /\ detected' = d
          /\ target_fp_reached' = TargetFpReached(d)
          /\ stop_training' = StopSignal(TargetFpReached(d), stop_training)
    /\ pc' = CallbackOrder("measure")
    /\ UNCHANGED <<run, file, model, history, reg_hyperp, lr, epoch, logs,
                   temp_hyperp>>
    /\ UNCHANGED <<old_hyperp, thresholds, profiled_layers>>

\* mutant: the search goes on from the current weight instead of 1.0
AdjustOnEpochEnd_SearchFromWeight ==
    /\ pc = "adjust"
    /\ IF CadenceSkip(epoch) \/ TargetSkip(target_fp_reached)
       THEN /\ temp_hyperp' = NoValue
            /\ old_hyperp' = NoValue
            /\ UNCHANGED <<reg_hyperp, lr>>
       ELSE /\ temp_hyperp' = SearchFrom(logs.last, logs.loss,
                                        IF reg_hyperp > 0 THEN reg_hyperp
                                        ELSE One)
            /\ old_hyperp' = reg_hyperp
            /\ IF ~IsClose(temp_hyperp', reg_hyperp)
               THEN /\ reg_hyperp' = temp_hyperp'
                    /\ lr' = IF LrDecayDue(epoch) THEN MulTenth(lr) ELSE lr
               ELSE UNCHANGED <<reg_hyperp, lr>>
    /\ pc' = CallbackOrder("adjust")
    /\ UNCHANGED <<run, file, model, history, epoch, logs, detected,
                   target_fp_reached, stop_training, thresholds,
                   profiled_layers>>

\* AdjustTrainingParameters.on_epoch_end, lines 128-149
AdjustOnEpochEnd ==
    /\ pc = "adjust"
    /\ IF CadenceSkip(epoch) \/ TargetSkip(target_fp_reached)
       THEN /\ temp_hyperp' = NoValue
            /\ old_hyperp' = NoValue
            /\ UNCHANGED <<reg_hyperp, lr>>
       ELSE /\ temp_hyperp' = Search(logs.last, logs.loss)
            /\ old_hyperp' = reg_hyperp
            /\ IF ~IsClose(temp_hyperp', reg_hyperp)
               THEN /\ reg_hyperp' = temp_hyperp'
                    /\ lr' = IF LrDecayDue(epoch) THEN MulTenth(lr) ELSE lr
               ELSE UNCHANGED <<reg_hyperp, lr>>
    /\ pc' = CallbackOrder("adjust")
    /\ UNCHANGED <<run, file, model, history, epoch, logs, detected,
                   target_fp_reached, stop_training, thresholds,
                   profiled_layers>>

\* the epoch loop of model.fit goes on to the next epoch
NextEpoch ==
    /\ pc = "epoch_end"
    /\ ~stop_training
    /\ epoch + 1 < EPOCHS
    /\ epoch' = epoch + 1
    /\ logs' = NoLogs
    /\ detected' = NoValue
    /\ temp_hyperp' = NoValue
    /\ old_hyperp' = NoValue
    /\ pc' = "train"
    /\ UNCHANGED <<run, file, model, history, reg_hyperp, lr,
                   target_fp_reached, stop_training, thresholds,
                   profiled_layers>>

\* the epoch loop of model.fit ends: stop_training or the budget is used
FitEnd ==
    /\ pc = "epoch_end"
    /\ stop_training \/ epoch + 1 >= EPOCHS
    /\ logs' = NoLogs
    /\ temp_hyperp' = NoValue
    /\ old_hyperp' = NoValue
    /\ history' = Append(history, "finetuned")
    /\ pc' = NextStatement("fit")
    /\ UNCHANGED <<run, file, model, reg_hyperp, lr, epoch, detected,
                   target_fp_reached, stop_training, thresholds,
                   profiled_layers>>

\* line 191: model = taboo_tools.remove_taboo(model)
StripTaboo ==
    /\ pc = "strip"
    /\ model' = RemoveTaboo(model)
    /\ history' = Append(history, "stripped")
    /\ pc' = NextStatement("strip")
    /\ UNCHANGED <<run, file, ctl>>
    /\ UNCHANGED <<old_hyperp, thresholds, profiled_layers>>

\* mutant: the final model is saved to another path
SaveFinal_OtherPath ==
    /\ pc = "save"
    /\ file' = file
    /\ history' = Append(history, "saved")
    /\ pc' = NextStatement("save")
    /\ UNCHANGED <<run, model, ctl>>
    /\ UNCHANGED <<old_hyperp, thresholds, profiled_layers>>

\* line 192: model.save(c.MODEL_PATH)
SaveFinal ==
    /\ pc = "save"
    /\ file' = Saved(model)
    /\ history' = Append(history, "saved")
    /\ pc' = NextStatement("save")
    /\ UNCHANGED <<run, model, ctl>>
    /\ UNCHANGED <<old_hyperp, thresholds, profiled_layers>>

\* the script is started again with the same Config; only the file at
\* MODEL_PATH outlives the process
NewRun ==
    /\ pc = "done"
    /\ run < MaxRuns
    /\ run' = run + 1
    /\ pc' = "load"
    /\ model' = NoModel
    /\ history' = <<>>
    /\ reg_hyperp' = 0
    /\ lr' = InitialLr
    /\ epoch' = 0
    /\ logs' = NoLogs
    /\ detected' = NoValue
    /\ target_fp_reached' = FALSE
    /\ stop_training' = FALSE
    /\ temp_hyperp' = NoValue
    /\ old_hyperp' = NoValue
    /\ thresholds' = <<>>
    /\ profiled_layers' = <<>>
    /\ UNCHANGED file

Next ==
    \/ LoadModelOk
    \/ LoadModelFail
    \/ BaseFit
    \/ BaseSave
    \/ Augment
    \/ FitStart
    \/ TrainEpoch
    \/ MeasureOnEpochEnd
    \/ AdjustOnEpochEnd
    \/ NextEpoch
    \/ FitEnd
    \/ StripTaboo
    \/ SaveFinal
    \/ NewRun

Spec == Init /\ [][Next]_vars

TypeOK ==
    /\ pc \in {"load", "base_fit", "base_save", "augment", "fit", "strip",
               "save", "done"} \cup FitPcs
    /\ run \in 1..MaxRuns
    /\ epoch \in 0..(EPOCHS - 1)
    /\ reg_hyperp \in 0..One
    /\ lr \in 0..InitialLr
    /\ target_fp_reached \in BOOLEAN
    /\ stop_training \in BOOLEAN

(* =========================== properties ================================ *)

Range(s) == {s[i] : i \in DOMAIN s}

IsPrefix(s, t) == Len(s) <= Len(t) /\ \A i \in 1..Len(s) : s[i] = t[i]

\* the adjustment of the current epoch takes the branch of line 143
CommitsNow ==
    /\ epoch % UPDATE_EVERY_EPOCHS = 0
    /\ ~target_fp_reached
    /\ ~IsClose(Search(logs.last, logs.loss), reg_hyperp)

C2_StopIffBelowTarget ==
    (pc \in {"adjust", "epoch_end"}) =>
        /\ target_fp_reached = (detected < TARGET_FP)
        /\ stop_training = (detected < TARGET_FP)
        /\ (detected = 8 /\ TARGET_FP = 10) => stop_training

\* 0.008 was measured in a later epoch and the stop is signalled
C2_Witness ==
    /\ pc = "adjust"
    /\ epoch = 3
    /\ detected = 8
    /\ target_fp_reached
    /\ stop_training

\* C3: in the regularized phase the weight and the learning rate change
\* only in the adjustment of an epoch e with e mod updateCadence = 0 in
\* which targetReached is false.
C3_OnlyOnCadence ==
    [][(pc \in FitPcs /\ (reg_hyperp' # reg_hyperp \/ lr' # lr))
          => (/\ pc = "adjust"
              /\ epoch % UPDATE_EVERY_EPOCHS = 0
              /\ ~target_fp_reached)]_vars

\* an epoch off the cadence, target not reached, whose logs give a
\* candidate different from the weight: the adjustment has run
C3_Witness ==
    /\ pc = "epoch_end"
    /\ epoch = 3
    /\ ~target_fp_reached
    /\ logs.set
    /\ Search(logs.last, logs.loss) # reg_hyperp

\* C4 (as claimed): the candidate weight the search returns is always in
\* the interval (0, 1].
C4_CandidateInUnitInterval ==
    (temp_hyperp # NoValue) => (temp_hyperp > 0 /\ temp_hyperp <= One)

\* C5 (as claimed): when the candidate shrinks to 0 without satisfying the
\* bound, the controller keeps the previous weight.
C5_KeepsWeightOnUnderflow ==
    [][(/\ pc = "adjust"
        /\ epoch % UPDATE_EVERY_EPOCHS = 0
        /\ ~target_fp_reached
        /\ Search(logs.last, logs.loss) = 0)
          => reg_hyperp' = reg_hyperp]_vars

\* regularizationLoss * 0.1^k - classificationLoss < 1, on finite losses
C6_Bound(k) ==
    logs.last.v * Pow10(WeightDigits - k) - logs.loss.v * One < 10 * One

C7_LrDecay ==
    [][(pc \in FitPcs) =>
          /\ lr' <= lr
          /\ IF /\ pc = "adjust"
                /\ CommitsNow
                /\ epoch > 0
                /\ epoch % (2 * UPDATE_EVERY_EPOCHS) = 0
             THEN lr' = lr \div 10
             ELSE lr' = lr]_vars

\* the learning rate has been decayed twice, in epochs 10 and 20
C7_Witness ==
    /\ pc = "epoch_end"
    /\ epoch = 20
    /\ lr = InitialLr \div 100

\* C8 (as claimed): a weight update committed in epoch 0 also decays the
\* learning rate.
C8_DecayAtEpochZero ==
    [][(pc = "adjust" /\ epoch = 0 /\ CommitsNow) => lr' = lr \div 10]_vars

\* C8 (amended): in epoch 0, target not reached, the controller runs the
\* search and commits a candidate that is not close to the weight, and the
\* learning rate is left unchanged.
C8_NoDecayAtEpochZero ==
    [][(pc = "adjust" /\ epoch = 0 /\ ~target_fp_reached) =>
          /\ temp_hyperp' # NoValue
          /\ CommitsNow => reg_hyperp' = temp_hyperp'
          /\ lr' = lr]_vars

\* a weight update was committed in epoch 0 and the learning rate is the
\* initial one
C8_Witness ==
    /\ pc = "epoch_end"
    /\ epoch = 0
    /\ reg_hyperp = One \div 10
    /\ lr = InitialLr

LoadedRun == <<"loaded", "augmented", "finetuned", "stripped", "saved">>

ScratchRun == <<"scratch", "base_fit", "base_saved", "augmented",
                "finetuned", "stripped", "saved">>

\* C9: a run performs load or (train and persist the base checkpoint),
\* augmentation, fine-tuning, strip, final save, in this order; epochs run
\* on the augmented model only, the fit ends by the halt or with the budget
\* used, and no augmented model is ever persisted.
C9_RunOrder ==
    /\ IsPrefix(history, LoadedRun) \/ IsPrefix(history, ScratchRun)
    /\ (pc \in FitPcs) =>
          (model.taboo /\ history[Len(history)] = "augmented")
    /\ ("finetuned" \in Range(history)) =>
          (stop_training \/ epoch = EPOCHS - 1)
    /\ ("stripped" \in Range(history)) => ~model.taboo
    /\ (file.kind = "model") => ~file.taboo
    /\ (pc = "done") =>
          /\ history \in {LoadedRun, ScratchRun}
          /\ file = Saved([weights |-> "tuned", taboo |-> FALSE])

\* a run that trained the base model and used the whole epoch budget is
\* complete
C9_Witness ==
    /\ pc = "done"
    /\ history = ScratchRun
    /\ ~stop_training
    /\ epoch = EPOCHS - 1

\* C10: the base model is trained if and only if loading the checkpoint
\* fails; a loadable checkpoint leads straight to the augmentation of the
\* loaded model, a missing or corrupt one to training, saving and then the
\* augmentation.
C10_LoadOrTrain ==
    [][/\ (pc = "load" /\ file.kind = "model") =>
             /\ pc' = "augment"
             /\ model'.weights = file.weights
             /\ history' = <<"loaded">>
       /\ (pc = "load" /\ file.kind \in {"absent", "corrupt"}) =>
             /\ pc' = "base_fit"
             /\ history' = <<"scratch">>
       /\ (pc' = "augment") =>
             /\ ("base_fit" \in Range(history')) = (history'[1] = "scratch")
             /\ ("base_fit" \in Range(history')) => model'.weights = "base"
             /\ file'.kind = "model"]_vars

\* the checkpoint was corrupt; the base model has been trained and saved
\* and the run is at the augmentation
C10_Witness ==
    /\ pc = "augment"
    /\ run = 1
    /\ history = <<"scratch", "base_fit", "base_saved">>
    /\ file = Saved([weights |-> "base", taboo |-> FALSE])

\* C11 (as claimed): in an eligible epoch the candidate is committed exactly
\* when it is not within the tolerance of the current weight; after a
\* commit the weight equals the candidate (the two are within the
\* tolerance), and a candidate within the tolerance leaves the weight and
\* the learning rate unchanged, also in a decay epoch.
C11_CommitIffDiffers ==
    [][(/\ pc = "adjust"
        /\ epoch % UPDATE_EVERY_EPOCHS = 0
        /\ ~target_fp_reached) =>
          LET c == Search(logs.last, logs.loss)
          IN  IF ~IsClose(c, reg_hyperp)
              THEN reg_hyperp' = c /\ IsClose(c, reg_hyperp')
              ELSE reg_hyperp' = reg_hyperp /\ lr' = lr]_vars

\* C12: in every epoch the evaluation comes first and the adjustment
\* second; the adjustment decides on the flag the evaluation of the same
\* epoch computed from that epoch's measurement; the epoch index advances
\* by one, and only after both have run.
C12_EvaluationBeforeDecision ==
    [][/\ (pc' = "adjust") =>
             /\ pc = "measure"
             /\ detected' \in DetectedValues
             /\ target_fp_reached' = (detected' < TARGET_FP)
       /\ (pc = "adjust") =>
             /\ pc' = "epoch_end"
             /\ detected \in DetectedValues
             /\ IF detected < TARGET_FP
                THEN /\ reg_hyperp' = reg_hyperp
                     /\ lr' = lr
                     /\ temp_hyperp' = NoValue
                ELSE (epoch % UPDATE_EVERY_EPOCHS = 0)
                        => temp_hyperp' # NoValue
       /\ (epoch' # epoch /\ run' = run) =>
             /\ pc = "epoch_end"
             /\ pc' = "train"
             /\ epoch' = epoch + 1]_vars

\* the target was first reached in epoch 5, an update epoch whose logs give
\* a candidate that is not close to the weight: the adjustment has run and
\* has not searched
C12_Witness ==
    /\ pc = "epoch_end"
    /\ epoch = 5
    /\ detected = 8
    /\ target_fp_reached
    /\ temp_hyperp = NoValue
    /\ logs.set
    /\ ~IsClose(Search(logs.last, logs.loss), reg_hyperp)

\* the program is sequential and every statement returns: a run that can
\* take a step takes it
FairSpec == Spec /\ WF_vars(Next)

\* C13: no fine-tuning epoch begins once the evaluator has found the target
\* reached; the fine-tuning ends only by that halt or with the budget of
\* 100 epochs used; and every fine-tuning phase that has begun is
\* eventually followed by the stripped model being saved.
C13_HaltsAndFinishes ==
    /\ []((pc = "train") => ~target_fp_reached)
    /\ []((pc \in {"strip", "save", "done"}) =>
             (target_fp_reached \/ epoch = EPOCHS - 1))
    /\ (pc \in FitPcs) ~>
          (pc = "done" /\ ~model.taboo /\ file = Saved(model))

\* a run halted by the controller before the budget was used is complete
C13_Witness ==
    /\ pc = "done"
    /\ target_fp_reached
    /\ stop_training
    /\ epoch = 7
    /\ file = Saved(model)

\* C14: in the regularized phase the weight and the learning rate are
\* changed by the adjustment step only, never by the evaluation step; no
\* step of the phase changes the thresholds or the profiled layers, which
\* are those of the augmentation, one threshold per profiled layer.
C14_ControllerOwnsWeights ==
    [][(pc \in FitPcs) =>
          /\ (reg_hyperp' # reg_hyperp \/ lr' # lr) => pc = "adjust"
          /\ (pc = "measure") => (reg_hyperp' = reg_hyperp /\ lr' = lr)
          /\ thresholds' = thresholds
          /\ profiled_layers' = profiled_layers
          /\ thresholds = THRESHOLD
          /\ profiled_layers = PROFILED_LAYERS
          /\ Len(thresholds) = Len(profiled_layers)
          /\ Len(profiled_layers) > 0]_vars

\* the evaluation has run on a committed weight and a decayed learning
\* rate and has left both, and the thresholds, as they were
C14_Witness ==
    /\ pc = "adjust"
    /\ epoch = 11
    /\ reg_hyperp = One \div 10
    /\ lr = InitialLr \div 10
    /\ thresholds = THRESHOLD
    /\ profiled_layers = PROFILED_LAYERS

\* C15 (as claimed): the weight is 0 when the regularized phase starts;
\* it is always 0 or a power of 0.1 in (0, 1]; it stays 0 until an update is
\* committed, and once it is positive it never returns to 0.
C15_ZeroOrPowerNeverBackToZero ==
    [][/\ (pc = "fit") => reg_hyperp' = 0
       /\ (pc \in FitPcs) =>
             /\ reg_hyperp' \in
                   {0} \cup {Pow10(k) : k \in 0..WeightDigits}
             /\ (reg_hyperp' # reg_hyperp) =>
                   (pc = "adjust" /\ CommitsNow)
             /\ (reg_hyperp > 0) => reg_hyperp' > 0]_vars

(* ------------------- the callbacks under any caller -------------------- *)

\* on_epoch_end of the two callbacks is public: a caller other than
\* model.fit may go on calling them, epoch after epoch, without reading
\* stop_training.  CallbackSpec starts where the regularized fit starts and
\* drives the callbacks that way for MaxCallEpochs epochs.
CallbackInit ==
    /\ pc = "train"
    /\ run = 1
    /\ file = Saved([weights |-> "base", taboo |-> FALSE])
    /\ model = CreateTabooModel([weights |-> "base", taboo |-> FALSE])
    /\ history = <<"scratch", "base_fit", "base_saved", "augmented">>
    /\ reg_hyperp = 0
    /\ lr = InitialLr
    /\ epoch = 0
    /\ logs = NoLogs
    /\ detected = NoValue
    /\ target_fp_reached = FALSE
    /\ stop_training = FALSE
    /\ temp_hyperp = NoValue
    /\ old_hyperp = NoValue
    /\ thresholds = THRESHOLD
    /\ profiled_layers = PROFILED_LAYERS

\* the caller goes on to the next epoch whatever stop_training is
EpochAgain ==
    /\ pc = "epoch_end"
    /\ epoch + 1 < MaxCallEpochs
    /\ epoch' = epoch + 1
    /\ logs' = NoLogs
    /\ detected' = NoValue
    /\ temp_hyperp' = NoValue
    /\ old_hyperp' = NoValue
    /\ pc' = "train"
    /\ UNCHANGED <<run, file, model, history, reg_hyperp, lr,
                   target_fp_reached, stop_training, thresholds,
                   profiled_layers>>

CallbackNext ==
    \/ TrainEpoch
    \/ MeasureOnEpochEnd
    \/ AdjustOnEpochEnd
    \/ EpochAgain

CallbackSpec == CallbackInit /\ [][CallbackNext]_vars

\* C16: after every call of MeasureDetection.on_epoch_end the flag equals
\* (the rate measured in that call < target_fp), so a call with a rate >=
\* target after the target was reached resets it to false; stop_training is
\* set when the flag is set and is never cleared by either callback.
C16_FlagNotLatched ==
    [][/\ (pc = "measure") =>
             /\ target_fp_reached' = (detected' < TARGET_FP)
             /\ stop_training' = (stop_training \/ detected' < TARGET_FP)
       /\ (pc = "adjust") =>
             /\ target_fp_reached' = target_fp_reached
             /\ stop_training' = stop_training]_vars

\* the target was reached in an earlier call (the stop is signalled) and a
\* later call measured 0.012: the flag is false again
C16_Witness ==
    /\ pc = "adjust"
    /\ detected = 12
    /\ stop_training
    /\ ~target_fp_reached

\* the candidate as a function of the logs alone: 1.0 when the loop
\* condition is not a number, 0.0 when the last key is infinite, else the
\* first power of 0.1 under the bound
C17_CandidateOfLogs ==
    IF logs.last.cls = "nan" \/ logs.loss.cls \in {"nan", "inf"} THEN One
    ELSE IF logs.last.cls = "inf" THEN 0
    ELSE Pow10(WeightDigits -
               CHOOSE k \in 0..WeightDigits :
                   C6_Bound(k) /\ \A j \in 0..(k - 1) : ~C6_Bound(j))

\* C17: the candidate of an eligible epoch is determined by that epoch's
\* logs, whatever the weight was before the adjustment, and a committed
\* update sets the weight to it, be it below or above the previous weight.
C17_CandidateFromLogsOnly ==
    (pc = "epoch_end" /\ temp_hyperp # NoValue) =>
        /\ temp_hyperp = C17_CandidateOfLogs
        /\ (reg_hyperp # old_hyperp) => reg_hyperp = C17_CandidateOfLogs

\* a committed update has raised the weight from 0.01 to 0.1
C17_Witness ==
    /\ pc = "epoch_end"
    /\ old_hyperp = One \div 100
    /\ old_hyperp > 0
    /\ reg_hyperp = One \div 10
    /\ temp_hyperp = reg_hyperp

\* C18: a completed run leaves its own fine-tuned, stripped model at
\* MODEL_PATH; every later run loads that model, trains no base model and
\* augments and fine-tunes the fine-tuned weights, not the base ones.
C18_FinalModelReplacesCheckpoint ==
    /\ (pc = "done") =>
          /\ file.kind = "model"
          /\ file.weights = "tuned"
          /\ file.weights = model.weights
    /\ (run > 1) => file.weights = "tuned"
    /\ (run > 1 /\ pc # "load") =>
          /\ history[1] = "loaded"
          /\ "base_fit" \notin Range(history)
          /\ model.weights = "tuned"

\* the second run has loaded the first run's final model and fine-tunes it
C18_Witness ==
    /\ run = 2
    /\ pc = "train"
    /\ epoch = 0
    /\ history = <<"loaded", "augmented">>
    /\ model = [weights |-> "tuned", taboo |-> TRUE]

====
